---- MODULE Spec2Model ----
(***************************************************************************)
(* Model of src/middleware/controllers/explorer.js: the getEncodedBlocks   *)
(* handler (cache first, API fallback, delta encoding of the result), the  *)
(* getBlocks handler, the cache reader getDataFromCache and the API client *)
(* getDataFromApi.  The delta codec (utils/encoding) and the timestamp     *)
(* conversion (utils/time) are imported by the controller but their code   *)
(* is not part of the sources; they are modelled from the specification.   *)
(***************************************************************************)
EXTENDS Integers, Sequences, FiniteSets, TLC

VARIABLES
    table,        \* the rows of the transactions table, keyed by block_id
    handler,      \* per request: which controller function serves it
    query,        \* per request: req.query
    pc,           \* per request: where the async handler is suspended
    dbLog,        \* per request: the SQL queries handed to db.all
    dbPending,    \* per request: a db.all callback is outstanding
    cacheOutcome, \* per request: what the db.all callback delivered
    httpLog,      \* per request: the URLs handed to axios.request
    httpPending,  \* per request: an axios request is outstanding
    apiOutcome,   \* per request: what the API call settled with
    sent,         \* per request: the responses passed to res.send
    hitError,     \* per request: the message of an exception thrown while the
                  \* cached rows were transformed, "" when there was none
    codecPc,      \* codec harness: position
    codecIn,      \* codec harness: the samples given to encode
    codecEnc,     \* codec harness: the encoded series
    codecDec      \* codec harness: the result of decode

reqVars == <<handler, query, pc, dbLog, dbPending, cacheOutcome, httpLog,
             httpPending, apiOutcome, sent, hitError>>
codecVars == <<codecPc, codecIn, codecEnc, codecDec>>
vars == <<table, handler, query, pc, dbLog, dbPending, cacheOutcome, httpLog,
          httpPending, apiOutcome, sent, hitError, codecPc, codecIn, codecEnc,
          codecDec>>

----------------------------------------------------------------------------
(* Bounds of the model *)

MaxId == 2          \* block ids of the small tables are drawn from 1..MaxId
MaxApiLen == 2      \* longest API reply
BigExtra == 1       \* the big tables hold up to CacheLimit + BigExtra rows
MaxCodecLen == 3    \* longest sample sequence given to the codec harness
MaxCodecVal == 2    \* epochs and volumes of the codec harness are in 0..MaxCodecVal
MaxConcurrent == 2  \* requests in flight together in the concurrent specification

(* Program constants *)

CacheLimit == 100        \* LIMIT 100 of the default cache query
ApiDefaultStart == 1     \* /v1/blocks/1/100
ApiDefaultEnd == 100

----------------------------------------------------------------------------
(* JavaScript numbers as far as the handlers use them: NaN, an integer that *)
(* is a double, +Infinity or -Infinity                                      *)

NaN == [nan |-> TRUE, inf |-> 0, val |-> 0]
Num(n) == [nan |-> FALSE, inf |-> 0, val |-> n]
Infinity(sign) == [nan |-> FALSE, inf |-> sign, val |-> 0]
isNaN(x) == x.nan

\* x <= y for two numbers that are not NaN
NumLeq(x, y) ==
    IF x.inf = -1 \/ y.inf = 1 THEN TRUE
    ELSE IF x.inf = 1 \/ y.inf = -1 THEN FALSE
    ELSE x.val <= y.val

\* the number with the sign applied
Signed(sign, x) == IF x.inf /= 0 THEN Infinity(sign) ELSE Num(sign * x.val)

\* the position of the leading bit of n >= 1
RECURSIVE Log2(_)
Log2(n) == IF n < 2 THEN 0 ELSE 1 + Log2(n \div 2)

\* The double nearest to the natural number n, ties to the even significand:
\* n itself when it has at most 53 significant bits, else the nearer multiple
\* of the unit in the last place; +Infinity from 2^1024 on
RoundToDouble(n) ==
    LET e == Log2(n)
        ulp == 2^(e - 52)
        q == n \div ulp
        rem == n % ulp
        nearest == IF 2 * rem < ulp \/ (2 * rem = ulp /\ q % 2 = 0)
                   THEN q * ulp ELSE (q + 1) * ulp
    IN  IF e <= 52 THEN Num(n)
        ELSE IF Log2(nearest) >= 1024 THEN Infinity(1)
        ELSE Num(nearest)

\* A string is the sequence of its UTF-16 code units, as numbers: "a" is
\* <<97>>, "-1" is <<45, 49>>

\* "0" .. "9"
Digits == 48..57
isDigit(c) == c \in Digits
DigitVal(c) == c - 48

\* "+" and "-"
PlusSign == {43}
MinusSign == {45}

\* StrWhiteSpaceChar: TAB, LF, VT, FF, CR, space, NBSP, the space separators
\* U+1680, U+2000..U+200A, U+202F, U+205F and U+3000, the line and paragraph
\* separators U+2028 and U+2029, and the byte order mark U+FEFF
WhiteSpace ==
    {9, 10, 11, 12, 13, 32, 160, 5760} \cup (8192..8202)
       \cup {8232, 8233, 8239, 8287, 12288, 65279}

\* the string without its leading white space
RECURSIVE SkipSpaces(_)
SkipSpaces(s) ==
    IF s /= <<>> /\ Head(s) \in WhiteSpace THEN SkipSpaces(Tail(s)) ELSE s

RECURSIVE DigitPrefix(_)
DigitPrefix(s) ==
    IF s /= <<>> /\ isDigit(Head(s)) THEN <<Head(s)>> \o DigitPrefix(Tail(s))
    ELSE <<>>

RECURSIVE DecimalValue(_)
DecimalValue(ds) ==
    IF ds = <<>> THEN 0
    ELSE 10 * DecimalValue(SubSeq(ds, 1, Len(ds) - 1)) + DigitVal(ds[Len(ds)])

\* parseInt(string, 10): leading white space, an optional sign, the longest
\* run of digits; NaN when there is no digit.  A string is a sequence of
\* code units.  The value is the double nearest to the integer the digits
\* denote.
parseInt(str) ==
    LET s == SkipSpaces(str)
        signed == s /= <<>> /\ Head(s) \in PlusSign \cup MinusSign
        sign == IF s /= <<>> /\ Head(s) \in MinusSign THEN -1 ELSE 1
        ds == DigitPrefix(IF signed THEN Tail(s) ELSE s)
    IN  IF ds = <<>> THEN NaN ELSE Signed(sign, RoundToDouble(DecimalValue(ds)))

\* parseInt(req.query.<key>, 10); a missing key is undefined, which parses to NaN
parseQueryParam(q, key) ==
    IF key \in DOMAIN q THEN parseInt(q[key]) ELSE NaN

----------------------------------------------------------------------------
(* Timestamps and samples *)

\* A human-readable timestamp, here minutes and seconds
Timestamps == {[min |-> 0, sec |-> 5], [min |-> 1, sec |-> 0]}

\* utils/time parseTimeToUnixEpoch: the timestamp as a unix-epoch integer
parseTimeToUnixEpoch(t) == 60 * t.min + t.sec

----------------------------------------------------------------------------
(* The delta codec, utils/encoding *)

Abs(n) == IF n < 0 THEN -n ELSE n

\* Variant of applyDeltaEncoding that stores the size of each difference
applyDeltaEncoding_unsigned(samples) ==
    [length |-> Len(samples),
     base   |-> IF samples = <<>> THEN <<>> ELSE <<samples[1]>>,
     deltas |-> [i \in 1..(Len(samples) - 1) |->
                    [epoch  |-> Abs(samples[i + 1].epoch - samples[i].epoch),
                     volume |-> Abs(samples[i + 1].volume - samples[i].volume)]]]

\* encode: the first sample as an absolute base, every later sample as the
\* signed difference to its predecessor; the empty input gives the series
\* with no base and no deltas
applyDeltaEncoding(samples) ==
    [length |-> Len(samples),
     base   |-> IF samples = <<>> THEN <<>> ELSE <<samples[1]>>,
     deltas |-> [i \in 1..(Len(samples) - 1) |->
                    [epoch  |-> samples[i + 1].epoch - samples[i].epoch,
                     volume |-> samples[i + 1].volume - samples[i].volume]]]

RECURSIVE SumDeltas(_, _, _)
\* the sum of deltas lo..hi, field by field
SumDeltas(deltas, lo, hi) ==
    IF lo > hi THEN [epoch |-> 0, volume |-> 0]
    ELSE IF lo = hi THEN deltas[lo]
    ELSE LET mid == (lo + hi) \div 2
             a == SumDeltas(deltas, lo, mid)
             b == SumDeltas(deltas, mid + 1, hi)
         IN  [epoch |-> a.epoch + b.epoch, volume |-> a.volume + b.volume]

\* the samples reached from the base by adding the deltas one after another:
\* the k-th of them is the base plus the first k deltas
Accumulate(base, deltas) ==
    [k \in 1..Len(deltas) |->
        [epoch  |-> base.epoch + SumDeltas(deltas, 1, k).epoch,
         volume |-> base.volume + SumDeltas(deltas, 1, k).volume]]

MalformedSeries == [ok |-> FALSE, error |-> "MalformedSeries", samples |-> <<>>]

\* decode: accumulates the deltas onto the base; MalformedSeries when base and
\* delta count do not match the declared length
decodeDeltaEncoding(series) ==
    IF series.length = 0
    THEN IF series.base = <<>> /\ series.deltas = <<>>
         THEN [ok |-> TRUE, error |-> "", samples |-> <<>>]
         ELSE MalformedSeries
    ELSE IF Len(series.base) /= 1 \/ Len(series.deltas) /= series.length - 1
         THEN MalformedSeries
         ELSE [ok |-> TRUE, error |-> "",
               samples |-> <<series.base[1]>>
                             \o Accumulate(series.base[1], series.deltas)]

----------------------------------------------------------------------------
(* The transactions table and the cache reader *)

\* What a row holds besides its block_id.  A NULL volume is a row without
\* the volume field.
RowContents ==
    {[created_at |-> t] : t \in Timestamps}
      \cup {[created_at |-> t, volume |-> 2] : t \in Timestamps}

SmallTables == UNION {[S -> RowContents] : S \in SUBSET (1..MaxId)}

BigRow(i) == [created_at |-> [min |-> i \div 60, sec |-> i % 60],
              volume |-> i % 3]

BigTables == {[i \in 1..n |-> BigRow(i)] : n \in CacheLimit..(CacheLimit + BigExtra)}

Tables == SmallTables \cup BigTables

Row(tbl, i) == [block_id |-> i] @@ tbl[i]

RECURSIVE SortAsc(_)
\* the elements of a finite set of integers in ascending order: those below
\* the median, the median, those above it
SortAsc(S) ==
    IF S = {} THEN <<>>
    ELSE LET m == CHOOSE x \in S :
                     Cardinality({y \in S : y < x}) = Cardinality(S) \div 2
         IN  SortAsc({y \in S : y < m}) \o <<m>> \o SortAsc({y \in S : y > m})

FirstN(s, n) == SubSeq(s, 1, IF Len(s) < n THEN Len(s) ELSE n)

\* Variant of getDataFromCacheQuery whose default query has no LIMIT
getDataFromCacheQuery_noLimit(start, end) ==
    IF ~isNaN(start) /\ ~isNaN(end)
    THEN [where |-> TRUE,  params |-> <<start, end>>, limit |-> <<>>]
    ELSE [where |-> FALSE, params |-> <<>>, limit |-> <<>>]

\* getDataFromCache, the choice of the query: the BETWEEN query with both
\* bounds as parameters when both are numbers, else the LIMIT query.  A query
\* is its WHERE clause (present or not, with its parameters) and its LIMIT
\* clause (no element, or the limit)
getDataFromCacheQuery(start, end) ==
    IF ~isNaN(start) /\ ~isNaN(end)
    THEN [where |-> TRUE,  params |-> <<start, end>>, limit |-> <<>>]
    ELSE [where |-> FALSE, params |-> <<>>, limit |-> <<CacheLimit>>]

\* block_id BETWEEN ? AND ? with the parameters lo and hi
Between(i, lo, hi) == NumLeq(lo, Num(i)) /\ NumLeq(Num(i), hi)

Reverse(s) == [k \in 1..Len(s) |-> s[Len(s) + 1 - k]]

\* Variant of dbAll for a query that orders by block_id DESC
dbAll_desc(q, tbl) ==
    LET ids == IF q.where
               THEN {i \in DOMAIN tbl : Between(i, q.params[1], q.params[2])}
               ELSE DOMAIN tbl
        ordered == Reverse(SortAsc(ids))
        kept == IF q.limit = <<>> THEN ordered ELSE FirstN(ordered, q.limit[1])
    IN  [k \in 1..Len(kept) |-> Row(tbl, kept[k])]

\* Variant of dbAll that applies the LIMIT of the default query to the range
\* query too
dbAll_capped(q, tbl) ==
    LET ids == IF q.where
               THEN {i \in DOMAIN tbl : Between(i, q.params[1], q.params[2])}
               ELSE DOMAIN tbl
        kept == FirstN(SortAsc(ids), CacheLimit)
    IN  [k \in 1..Len(kept) |-> Row(tbl, kept[k])]

\* What SQLite answers to the query: the rows in ascending block_id
dbAll(q, tbl) ==
    LET ids == IF q.where
               THEN {i \in DOMAIN tbl : Between(i, q.params[1], q.params[2])}
               ELSE DOMAIN tbl
        ordered == SortAsc(ids)
        kept == IF q.limit = <<>> THEN ordered ELSE FirstN(ordered, q.limit[1])
    IN  [k \in 1..Len(kept) |-> Row(tbl, kept[k])]

\* Variant of RowVolume with the default 1: record.volume || 1
RowVolume_orOne(record) ==
    IF "volume" \in DOMAIN record /\ record.volume /= 0 THEN record.volume ELSE 1

\* record.volume || 0
RowVolume(record) ==
    IF "volume" \in DOMAIN record /\ record.volume /= 0 THEN record.volume ELSE 0

HasVolume(record) == "volume" \in DOMAIN record

\* Variant of CacheSamples that leaves out the rows with a NULL volume
CacheSamples_filtered(cacheData) ==
    LET rows == SelectSeq(cacheData, HasVolume)
    IN  [k \in 1..Len(rows) |->
            [epoch  |-> parseTimeToUnixEpoch(rows[k].created_at),
             volume |-> RowVolume(rows[k])]]

\* the cacheData.map of getEncodedBlocks
CacheSamples(cacheData) ==
    [k \in 1..Len(cacheData) |->
        [epoch  |-> parseTimeToUnixEpoch(cacheData[k].created_at),
         volume |-> RowVolume(cacheData[k])]]

----------------------------------------------------------------------------
(* The API client *)

\* ${EXPLORER_BASE_URL}/v1/blocks/<start>/<end>
BlocksUrl(start, end) == [path |-> "/v1/blocks", args |-> <<start, end>>]

\* ${EXPLORER_BASE_URL}/populatetable
PopulateTableUrl == [path |-> "/populatetable", args |-> <<>>]

\* Variant of getDataFromApiUrl that forgets the requested range
getDataFromApiUrl_default(start, end) == BlocksUrl(Num(ApiDefaultStart), Num(ApiDefaultEnd))

\* getDataFromApi, the choice of the URL: /v1/blocks/<start>/<end>
getDataFromApiUrl(start, end) ==
    IF ~isNaN(start) /\ ~isNaN(end)
    THEN BlocksUrl(start, end)
    ELSE BlocksUrl(Num(ApiDefaultStart), Num(ApiDefaultEnd))

\* Block records of the remote API; transactions may be missing
ApiRecords ==
    {[createdAt |-> [min |-> 0, sec |-> 5]],
     [createdAt |-> [min |-> 0, sec |-> 5], transactions |-> <<>>],
     [createdAt |-> [min |-> 1, sec |-> 0], transactions |-> <<"SET", "SET">>]}

SeqsUpTo(S, n) == UNION {[1..k -> S] : k \in 0..n}

\* What response?.data is when it is no array: an object, null (a JSON body
\* null), or undefined (a response without data)
NonArrayTypes == {"object", "null", "undefined"}

\* response?.data: an array of block records, or something that is no array
ApiReplies ==
    {[type |-> "array", items |-> s] : s \in SeqsUpTo(ApiRecords, MaxApiLen)}
      \cup {[type |-> t, items |-> <<>>] : t \in NonArrayTypes}

\* data.map exists
IsArray(data) == data.type = "array"

\* record?.transactions?.length || 0
RecordVolume(record) ==
    IF "transactions" \in DOMAIN record THEN Len(record.transactions) ELSE 0

\* the data.map of getDataFromApi
ApiSamples(items) ==
    [k \in 1..Len(items) |->
        [epoch  |-> parseTimeToUnixEpoch(items[k].createdAt),
         volume |-> RecordVolume(items[k])]]

CacheErrors == {"SQLITE_ERROR: no such table: transactions"}
HttpErrors == {"connect ECONNREFUSED", "Request failed with status code 503"}
\* The message of the TypeError that data.map(...) throws on data that is no
\* array
MapTypeError(data) ==
    IF data.type = "null" THEN "Cannot read properties of null (reading 'map')"
    ELSE IF data.type = "undefined"
    THEN "Cannot read properties of undefined (reading 'map')"
    ELSE "data.map is not a function"

----------------------------------------------------------------------------
(* Requests *)

\* The values a query parameter takes, as sequences of code units
RawVals ==
    {<<97>>,             \* "a"
     <<49>>,             \* "1"
     <<51, 98>>,         \* "3b"
     <<45, 49>>,         \* "-1"
     <<50, 48, 48>>,     \* "200"
     <<9, 49>>}          \* TAB "1"

\* req.query: start and end are each present or not
Queries == UNION {[K -> RawVals] : K \in SUBSET {"start", "end"}}

\* module.exports
Handlers == {"getExplorerData", "getBlocks", "getEncodedBlocks"}

Requests == DOMAIN pc

NoCacheOutcome == [kind |-> "none", rows |-> <<>>, message |-> ""]
NoData == [type |-> "undefined", items |-> <<>>]
NoApiOutcome == [kind |-> "none", data |-> NoData, message |-> ""]

\* const start = parseInt(req.query.start, 10), const end likewise
StartOf(r) == parseQueryParam(query[r], "start")
EndOf(r) == parseQueryParam(query[r], "end")

Last(s) == s[Len(s)]

\* res.send(body) with the status set before it
Send(r, status, body) ==
    sent' = [sent EXCEPT ![r] = Append(@, [status |-> status, body |-> body])]

\* axios.request(config) with config.url = url
AxiosRequest(r, url) ==
    /\ httpLog' = [httpLog EXCEPT ![r] = Append(@, url)]
    /\ httpPending' = [httpPending EXCEPT ![r] = TRUE]

\* Variant of ApiErrorBody that drops the failure's message
ApiErrorBody_noDetails(msg) ==
    [error |-> "Failed to fetch block data", details |-> ""]

ApiErrorBody(msg) == [error |-> "Failed to fetch block data", details |-> msg]

InitRequests(R) ==
    /\ handler \in [R -> Handlers]
    /\ query \in [R -> Queries]
    /\ pc = [r \in R |-> "ready"]
    /\ dbLog = [r \in R |-> <<>>]
    /\ dbPending = [r \in R |-> FALSE]
    /\ cacheOutcome = [r \in R |-> NoCacheOutcome]
    /\ httpLog = [r \in R |-> <<>>]
    /\ httpPending = [r \in R |-> FALSE]
    /\ apiOutcome = [r \in R |-> NoApiOutcome]
    /\ sent = [r \in R |-> <<>>]
    /\ hitError = [r \in R |-> ""]

CodecOff ==
    /\ codecPc = "off"
    /\ codecIn = <<>>
    /\ codecEnc = applyDeltaEncoding(<<>>)
    /\ codecDec = decodeDeltaEncoding(codecEnc)

Init ==
    /\ table \in Tables
    /\ InitRequests({1})
    /\ CodecOff

----------------------------------------------------------------------------
(* getEncodedBlocks *)

\* Variant of getEncodedBlocks_entry that starts the cache query and the API
\* request together
getEncodedBlocks_entry_parallel(r) ==
    /\ handler[r] = "getEncodedBlocks"
    /\ pc[r] = "ready"
    /\ dbLog' = [dbLog EXCEPT
                   ![r] = Append(@, getDataFromCacheQuery(StartOf(r), EndOf(r)))]
    /\ dbPending' = [dbPending EXCEPT ![r] = TRUE]
    /\ AxiosRequest(r, getDataFromApiUrl(StartOf(r), EndOf(r)))
    /\ pc' = [pc EXCEPT ![r] = "awaitCache"]
    /\ UNCHANGED <<table, handler, query, cacheOutcome, apiOutcome, sent,
                   codecVars, hitError>>

\* The handler up to its first await: the bounds are parsed and
\* getDataFromCache hands its query to db.all
getEncodedBlocks_entry(r) ==
    /\ handler[r] = "getEncodedBlocks"
    /\ pc[r] = "ready"
    /\ dbLog' = [dbLog EXCEPT
                   ![r] = Append(@, getDataFromCacheQuery(StartOf(r), EndOf(r)))]
    /\ dbPending' = [dbPending EXCEPT ![r] = TRUE]
    /\ pc' = [pc EXCEPT ![r] = "awaitCache"]
    /\ UNCHANGED <<table, handler, query, cacheOutcome, httpLog, httpPending,
                   apiOutcome, sent, codecVars, hitError>>

\* Variant of getEncodedBlocks_cacheRows without the return after res.send:
\* a hit is answered and the handler still goes on to getDataFromApi
getEncodedBlocks_cacheRows_noReturn(r) ==
    /\ handler[r] = "getEncodedBlocks"
    /\ pc[r] = "awaitCache"
    /\ LET cacheData == dbAll(Last(dbLog[r]), table)
       IN  /\ cacheOutcome' = [cacheOutcome EXCEPT
                 ![r] = [kind |-> "rows", rows |-> cacheData, message |-> ""]]
           /\ dbPending' = [dbPending EXCEPT ![r] = FALSE]
           /\ IF Len(cacheData) > 0
              THEN Send(r, 200, applyDeltaEncoding(CacheSamples(cacheData))
                                  @@ [isCached |-> TRUE])
              ELSE UNCHANGED sent
           /\ AxiosRequest(r, getDataFromApiUrl(StartOf(r), EndOf(r)))
           /\ pc' = [pc EXCEPT ![r] = "awaitApi"]
    /\ UNCHANGED <<table, handler, query, dbLog, apiOutcome, codecVars, hitError>>

\* db.all calls back with rows: with at least one row the encoded samples are
\* sent with isCached, else the handler goes on to getDataFromApi
getEncodedBlocks_cacheRows(r) ==
    /\ handler[r] = "getEncodedBlocks"
    /\ pc[r] = "awaitCache"
    /\ LET cacheData == dbAll(Last(dbLog[r]), table)
       IN  /\ cacheOutcome' = [cacheOutcome EXCEPT
                 ![r] = [kind |-> "rows", rows |-> cacheData, message |-> ""]]
           /\ dbPending' = [dbPending EXCEPT ![r] = FALSE]
           /\ IF Len(cacheData) > 0
              THEN /\ Send(r, 200, applyDeltaEncoding(CacheSamples(cacheData))
                                     @@ [isCached |-> TRUE])
                   /\ pc' = [pc EXCEPT ![r] = "done"]
                   /\ UNCHANGED <<httpLog, httpPending>>
              ELSE /\ AxiosRequest(r, getDataFromApiUrl(StartOf(r), EndOf(r)))
                   /\ pc' = [pc EXCEPT ![r] = "awaitApi"]
                   /\ UNCHANGED sent
    /\ UNCHANGED <<table, handler, query, dbLog, apiOutcome, codecVars, hitError>>

\* Variant of getEncodedBlocks_cacheError that answers with the cache error
\* instead of falling back
getEncodedBlocks_cacheError_surfaced(r, err) ==
    /\ handler[r] = "getEncodedBlocks"
    /\ pc[r] = "awaitCache"
    /\ cacheOutcome' = [cacheOutcome EXCEPT
          ![r] = [kind |-> "error", rows |-> <<>>, message |-> err]]
    /\ dbPending' = [dbPending EXCEPT ![r] = FALSE]
    /\ Send(r, 500, ApiErrorBody(err))
    /\ pc' = [pc EXCEPT ![r] = "done"]
    /\ UNCHANGED <<table, handler, query, dbLog, httpLog, httpPending,
                   apiOutcome, codecVars, hitError>>

\* db.all calls back with an error: the catch logs it and the handler goes on
\* to getDataFromApi
getEncodedBlocks_cacheError(r, err) ==
    /\ handler[r] = "getEncodedBlocks"
    /\ pc[r] = "awaitCache"
    /\ cacheOutcome' = [cacheOutcome EXCEPT
          ![r] = [kind |-> "error", rows |-> <<>>, message |-> err]]
    /\ dbPending' = [dbPending EXCEPT ![r] = FALSE]
    /\ AxiosRequest(r, getDataFromApiUrl(StartOf(r), EndOf(r)))
    /\ pc' = [pc EXCEPT ![r] = "awaitApi"]
    /\ UNCHANGED <<table, handler, query, dbLog, apiOutcome, sent, codecVars, hitError>>

\* axios resolves and getDataFromApi goes on in its own turn: it reads
\* response?.data and maps it, which throws a TypeError when the data is no
\* array; the promise the handler awaits is settled with the samples or with
\* the TypeError, and the handler resumes in a later turn
getEncodedBlocks_apiData(r, data) ==
    /\ handler[r] = "getEncodedBlocks"
    /\ pc[r] = "awaitApi"
    /\ apiOutcome' = [apiOutcome EXCEPT
          ![r] = [kind |-> "data", data |-> data,
                  message |-> IF IsArray(data) THEN "" ELSE MapTypeError(data)]]
    /\ httpPending' = [httpPending EXCEPT ![r] = FALSE]
    /\ pc' = [pc EXCEPT ![r] = "apiSettled"]
    /\ UNCHANGED <<table, handler, query, dbLog, dbPending, cacheOutcome,
                   httpLog, sent, codecVars, hitError>>

\* Variant of getEncodedBlocks_apiError that repeats the API request once
\* before giving up
getEncodedBlocks_apiError_retryOnce(r, msg) ==
    /\ handler[r] = "getEncodedBlocks"
    /\ pc[r] = "awaitApi"
    /\ apiOutcome' = [apiOutcome EXCEPT
          ![r] = [kind |-> "error", data |-> NoData, message |-> msg]]
    /\ IF Len(httpLog[r]) < 2
       THEN /\ AxiosRequest(r, Last(httpLog[r]))
            /\ UNCHANGED pc
       ELSE /\ httpPending' = [httpPending EXCEPT ![r] = FALSE]
            /\ pc' = [pc EXCEPT ![r] = "apiSettled"]
            /\ UNCHANGED httpLog
    /\ UNCHANGED <<table, handler, query, dbLog, dbPending, cacheOutcome,
                   sent, codecVars, hitError>>

\* axios rejects: getDataFromApi rejects with the same error, and the handler
\* resumes in a later turn
getEncodedBlocks_apiError(r, msg) ==
    /\ handler[r] = "getEncodedBlocks"
    /\ pc[r] = "awaitApi"
    /\ apiOutcome' = [apiOutcome EXCEPT
          ![r] = [kind |-> "error", data |-> NoData, message |-> msg]]
    /\ httpPending' = [httpPending EXCEPT ![r] = FALSE]
    /\ pc' = [pc EXCEPT ![r] = "apiSettled"]
    /\ UNCHANGED <<table, handler, query, dbLog, dbPending, cacheOutcome,
                   httpLog, sent, codecVars, hitError>>

\* Variant of getEncodedBlocks_afterApi that marks the fallback answer with
\* isCached: false
getEncodedBlocks_afterApi_flagged(r) ==
    /\ handler[r] = "getEncodedBlocks"
    /\ pc[r] = "apiSettled"
    /\ IF apiOutcome[r].kind = "data" /\ apiOutcome[r].message = ""
       THEN Send(r, 200, applyDeltaEncoding(ApiSamples(apiOutcome[r].data.items))
                           @@ [isCached |-> FALSE])
       ELSE Send(r, 500, ApiErrorBody(apiOutcome[r].message))
    /\ pc' = [pc EXCEPT ![r] = "done"]
    /\ UNCHANGED <<table, handler, query, dbLog, dbPending, cacheOutcome,
                   httpLog, httpPending, apiOutcome, codecVars, hitError>>

\* Variant of getEncodedBlocks_afterApi that answers an empty reply with an
\* error
getEncodedBlocks_afterApi_emptyIsError(r) ==
    /\ handler[r] = "getEncodedBlocks"
    /\ pc[r] = "apiSettled"
    /\ IF /\ apiOutcome[r].kind = "data"
          /\ apiOutcome[r].message = ""
          /\ apiOutcome[r].data.items /= <<>>
       THEN Send(r, 200, applyDeltaEncoding(ApiSamples(apiOutcome[r].data.items)))
       ELSE Send(r, 500, ApiErrorBody(apiOutcome[r].message))
    /\ pc' = [pc EXCEPT ![r] = "done"]
    /\ UNCHANGED <<table, handler, query, dbLog, dbPending, cacheOutcome,
                   httpLog, httpPending, apiOutcome, codecVars, hitError>>

\* Variant of getEncodedBlocks_afterApi in which the API result is kept in
\* one place for all requests: the handler answers with the result of the
\* highest-numbered request that has one
getEncodedBlocks_afterApi_sharedData(r) ==
    /\ handler[r] = "getEncodedBlocks"
    /\ pc[r] = "apiSettled"
    /\ LET settled == {o \in Requests : apiOutcome[o].kind /= "none"}
           last == CHOOSE o \in settled : \A q \in settled : q <= o
       IN  IF apiOutcome[last].kind = "data" /\ apiOutcome[last].message = ""
           THEN Send(r, 200,
                     applyDeltaEncoding(ApiSamples(apiOutcome[last].data.items)))
           ELSE Send(r, 500, ApiErrorBody(apiOutcome[last].message))
    /\ pc' = [pc EXCEPT ![r] = "done"]
    /\ UNCHANGED <<table, handler, query, dbLog, dbPending, cacheOutcome,
                   httpLog, httpPending, apiOutcome, codecVars, hitError>>

\* The handler resumes after await getDataFromApi: the samples are encoded
\* and sent, or the catch answers the rejection with a 500 carrying its
\* message
getEncodedBlocks_afterApi(r) ==
    /\ handler[r] = "getEncodedBlocks"
    /\ pc[r] = "apiSettled"
    /\ IF apiOutcome[r].kind = "data" /\ apiOutcome[r].message = ""
       THEN Send(r, 200, applyDeltaEncoding(ApiSamples(apiOutcome[r].data.items)))
       ELSE Send(r, 500, ApiErrorBody(apiOutcome[r].message))
    /\ pc' = [pc EXCEPT ![r] = "done"]
    /\ UNCHANGED <<table, handler, query, dbLog, dbPending, cacheOutcome,
                   httpLog, httpPending, apiOutcome, codecVars, hitError>>

\* What the transformation of rows or records (the timestamp conversion or
\* the encoding) may throw
HitErrors == {"Invalid time value"}

\* axios resolves with an array of at least one record and the timestamp
\* conversion throws in the map of getDataFromApi: the promise the handler
\* awaits is rejected with the exception
getEncodedBlocks_apiDataThrow(r, data, msg) ==
    /\ handler[r] = "getEncodedBlocks"
    /\ pc[r] = "awaitApi"
    /\ IsArray(data)
    /\ data.items /= <<>>
    /\ apiOutcome' = [apiOutcome EXCEPT
          ![r] = [kind |-> "data", data |-> data, message |-> msg]]
    /\ httpPending' = [httpPending EXCEPT ![r] = FALSE]
    /\ pc' = [pc EXCEPT ![r] = "apiSettled"]
    /\ UNCHANGED <<table, handler, query, dbLog, dbPending, cacheOutcome,
                   httpLog, sent, codecVars, hitError>>

\* The handler resumes with the samples and the encoding throws: the catch
\* answers with a 500 carrying the exception's message
getEncodedBlocks_afterApiThrow(r, msg) ==
    /\ handler[r] = "getEncodedBlocks"
    /\ pc[r] = "apiSettled"
    /\ apiOutcome[r].kind = "data"
    /\ apiOutcome[r].message = ""
    /\ apiOutcome' = [apiOutcome EXCEPT ![r].message = msg]
    /\ Send(r, 500, ApiErrorBody(msg))
    /\ pc' = [pc EXCEPT ![r] = "done"]
    /\ UNCHANGED <<table, handler, query, dbLog, dbPending, cacheOutcome,
                   httpLog, httpPending, codecVars, hitError>>

\* Variant of getEncodedBlocks_cacheRowsThrow in which the exception is not
\* caught by the handler: it ends without a response
getEncodedBlocks_cacheRowsThrow_escapes(r, msg) ==
    /\ handler[r] = "getEncodedBlocks"
    /\ pc[r] = "awaitCache"
    /\ LET cacheData == dbAll(Last(dbLog[r]), table)
       IN  /\ Len(cacheData) > 0
           /\ cacheOutcome' = [cacheOutcome EXCEPT
                 ![r] = [kind |-> "rows", rows |-> cacheData, message |-> ""]]
    /\ dbPending' = [dbPending EXCEPT ![r] = FALSE]
    /\ hitError' = [hitError EXCEPT ![r] = msg]
    /\ pc' = [pc EXCEPT ![r] = "done"]
    /\ UNCHANGED <<table, handler, query, dbLog, httpLog, httpPending,
                   apiOutcome, sent, codecVars>>

\* Variant of getEncodedBlocks_cacheRowsThrow in which the exception is
\* raised after the cached response was handed to res.send
getEncodedBlocks_cacheRowsThrow_afterSend(r, msg) ==
    /\ handler[r] = "getEncodedBlocks"
    /\ pc[r] = "awaitCache"
    /\ LET cacheData == dbAll(Last(dbLog[r]), table)
       IN  /\ Len(cacheData) > 0
           /\ cacheOutcome' = [cacheOutcome EXCEPT
                 ![r] = [kind |-> "rows", rows |-> cacheData, message |-> ""]]
           /\ Send(r, 200, applyDeltaEncoding(CacheSamples(cacheData))
                              @@ [isCached |-> TRUE])
    /\ dbPending' = [dbPending EXCEPT ![r] = FALSE]
    /\ hitError' = [hitError EXCEPT ![r] = msg]
    /\ AxiosRequest(r, getDataFromApiUrl(StartOf(r), EndOf(r)))
    /\ pc' = [pc EXCEPT ![r] = "awaitApi"]
    /\ UNCHANGED <<table, handler, query, dbLog, apiOutcome, codecVars>>

\* db.all calls back with at least one row and the transformation of the rows
\* (the timestamp conversion or the encoding) throws before res.send: the
\* catch of the cache block logs it and the handler goes on to getDataFromApi
getEncodedBlocks_cacheRowsThrow(r, msg) ==
    /\ handler[r] = "getEncodedBlocks"
    /\ pc[r] = "awaitCache"
    /\ LET cacheData == dbAll(Last(dbLog[r]), table)
       IN  /\ Len(cacheData) > 0
           /\ cacheOutcome' = [cacheOutcome EXCEPT
                 ![r] = [kind |-> "rows", rows |-> cacheData, message |-> ""]]
    /\ dbPending' = [dbPending EXCEPT ![r] = FALSE]
    /\ hitError' = [hitError EXCEPT ![r] = msg]
    /\ AxiosRequest(r, getDataFromApiUrl(StartOf(r), EndOf(r)))
    /\ pc' = [pc EXCEPT ![r] = "awaitApi"]
    /\ UNCHANGED <<table, handler, query, dbLog, apiOutcome, sent, codecVars>>

----------------------------------------------------------------------------
(* getBlocks *)

BadParamsBody ==
    [error |-> "Pass valid start and end query params as part of the request"]

\* Variant of getBlocks_entry that answers 400 only when both bounds are NaN
getBlocks_entry_bothNaN(r) ==
    /\ handler[r] = "getBlocks"
    /\ pc[r] = "ready"
    /\ IF isNaN(StartOf(r)) /\ isNaN(EndOf(r))
       THEN /\ Send(r, 400, BadParamsBody)
            /\ pc' = [pc EXCEPT ![r] = "done"]
            /\ UNCHANGED <<httpLog, httpPending>>
       ELSE /\ AxiosRequest(r, BlocksUrl(StartOf(r), EndOf(r)))
            /\ pc' = [pc EXCEPT ![r] = "awaitApi"]
            /\ UNCHANGED sent
    /\ UNCHANGED <<table, handler, query, dbLog, dbPending, cacheOutcome,
                   apiOutcome, codecVars, hitError>>

\* The handler up to its await: 400 when a bound is NaN, else the request
\* for /v1/blocks/<start>/<end>
getBlocks_entry(r) ==
    /\ handler[r] = "getBlocks"
    /\ pc[r] = "ready"
    /\ IF isNaN(StartOf(r)) \/ isNaN(EndOf(r))
       THEN /\ Send(r, 400, BadParamsBody)
            /\ pc' = [pc EXCEPT ![r] = "done"]
            /\ UNCHANGED <<httpLog, httpPending>>
       ELSE /\ AxiosRequest(r, BlocksUrl(StartOf(r), EndOf(r)))
            /\ pc' = [pc EXCEPT ![r] = "awaitApi"]
            /\ UNCHANGED sent
    /\ UNCHANGED <<table, handler, query, dbLog, dbPending, cacheOutcome,
                   apiOutcome, codecVars, hitError>>

\* axios resolves: response.data is sent as it is
getBlocks_apiData(r, data) ==
    /\ handler[r] = "getBlocks"
    /\ pc[r] = "awaitApi"
    /\ apiOutcome' = [apiOutcome EXCEPT
          ![r] = [kind |-> "data", data |-> data, message |-> ""]]
    /\ httpPending' = [httpPending EXCEPT ![r] = FALSE]
    /\ Send(r, 200, data)
    /\ pc' = [pc EXCEPT ![r] = "done"]
    /\ UNCHANGED <<table, handler, query, dbLog, dbPending, cacheOutcome,
                   httpLog, codecVars, hitError>>

\* axios rejects: 500 with the error's message
getBlocks_apiError(r, msg) ==
    /\ handler[r] = "getBlocks"
    /\ pc[r] = "awaitApi"
    /\ apiOutcome' = [apiOutcome EXCEPT
          ![r] = [kind |-> "error", data |-> NoData, message |-> msg]]
    /\ httpPending' = [httpPending EXCEPT ![r] = FALSE]
    /\ Send(r, 500, ApiErrorBody(msg))
    /\ pc' = [pc EXCEPT ![r] = "done"]
    /\ UNCHANGED <<table, handler, query, dbLog, dbPending, cacheOutcome,
                   httpLog, codecVars, hitError>>

----------------------------------------------------------------------------
(* getExplorerData *)

ExplorerErrorBody(msg) == [error |-> "Failed to fetch explorer data", details |-> msg]

\* The handler up to its await: the request for /populatetable
getExplorerData_entry(r) ==
    /\ handler[r] = "getExplorerData"
    /\ pc[r] = "ready"
    /\ AxiosRequest(r, PopulateTableUrl)
    /\ pc' = [pc EXCEPT ![r] = "awaitApi"]
    /\ UNCHANGED <<table, handler, query, dbLog, dbPending, cacheOutcome,
                   apiOutcome, sent, codecVars, hitError>>

\* axios resolves with a response: response.data is sent as it is
getExplorerData_apiData(r, data) ==
    /\ handler[r] = "getExplorerData"
    /\ pc[r] = "awaitApi"
    /\ apiOutcome' = [apiOutcome EXCEPT
          ![r] = [kind |-> "data", data |-> data, message |-> ""]]
    /\ httpPending' = [httpPending EXCEPT ![r] = FALSE]
    /\ Send(r, 200, data)
    /\ pc' = [pc EXCEPT ![r] = "done"]
    /\ UNCHANGED <<table, handler, query, dbLog, dbPending, cacheOutcome,
                   httpLog, codecVars, hitError>>

\* axios rejects: 500 with the error's message
getExplorerData_apiError(r, msg) ==
    /\ handler[r] = "getExplorerData"
    /\ pc[r] = "awaitApi"
    /\ apiOutcome' = [apiOutcome EXCEPT
          ![r] = [kind |-> "error", data |-> NoData, message |-> msg]]
    /\ httpPending' = [httpPending EXCEPT ![r] = FALSE]
    /\ Send(r, 500, ExplorerErrorBody(msg))
    /\ pc' = [pc EXCEPT ![r] = "done"]
    /\ UNCHANGED <<table, handler, query, dbLog, dbPending, cacheOutcome,
                   httpLog, codecVars, hitError>>

----------------------------------------------------------------------------

Next ==
    \/ \E r \in Requests : getExplorerData_entry(r)
    \/ \E r \in Requests, data \in ApiReplies : getExplorerData_apiData(r, data)
    \/ \E r \in Requests, msg \in HttpErrors : getExplorerData_apiError(r, msg)
    \/ \E r \in Requests : getEncodedBlocks_entry(r)
    \/ \E r \in Requests : getEncodedBlocks_cacheRows(r)
    \/ \E r \in Requests, err \in CacheErrors : getEncodedBlocks_cacheError(r, err)
    \/ \E r \in Requests, data \in ApiReplies : getEncodedBlocks_apiData(r, data)
    \/ \E r \in Requests, msg \in HttpErrors : getEncodedBlocks_apiError(r, msg)
    \/ \E r \in Requests : getEncodedBlocks_afterApi(r)
    \/ \E r \in Requests : getBlocks_entry(r)
    \/ \E r \in Requests, data \in ApiReplies : getBlocks_apiData(r, data)
    \/ \E r \in Requests, msg \in HttpErrors : getBlocks_apiError(r, msg)

Spec == Init /\ [][Next]_vars

\* The controller when the utilities it calls on cached rows and on API
\* records may throw
NextThrow ==
    \/ Next
    \/ \E r \in Requests, msg \in HitErrors : getEncodedBlocks_cacheRowsThrow(r, msg)
    \/ \E r \in Requests, data \in ApiReplies, msg \in HitErrors :
          getEncodedBlocks_apiDataThrow(r, data, msg)
    \/ \E r \in Requests, msg \in HitErrors : getEncodedBlocks_afterApiThrow(r, msg)

SpecThrow == Init /\ [][NextThrow]_vars

----------------------------------------------------------------------------
(* Several getEncodedBlocks requests in flight against the one table and     *)
(* the one remote API                                                        *)

ConcQueries ==
    {<<>>,
     [start |-> <<49>>, end |-> <<49>>],
     [start |-> <<45, 49>>, end |-> <<50, 48, 48>>]}

ConcTables ==
    {<<>>,
     <<[created_at |-> [min |-> 1, sec |-> 0], volume |-> 2],
       [created_at |-> [min |-> 0, sec |-> 5]]>>}

ConcReplies ==
    {[type |-> "array", items |-> <<>>],
     [type |-> "array",
      items |-> <<[createdAt |-> [min |-> 0, sec |-> 5]],
                  [createdAt |-> [min |-> 1, sec |-> 0],
                   transactions |-> <<"SET", "SET">>]>>],
     [type |-> "object", items |-> <<>>],
     [type |-> "null", items |-> <<>>]}

InitConc ==
    /\ table \in ConcTables
    /\ InitRequests(1..MaxConcurrent)
    /\ \A r \in Requests : handler[r] = "getEncodedBlocks"
    /\ \A r \in Requests : query[r] \in ConcQueries
    /\ CodecOff

NextConc ==
    \/ \E r \in Requests : getEncodedBlocks_entry(r)
    \/ \E r \in Requests : getEncodedBlocks_cacheRows(r)
    \/ \E r \in Requests, err \in CacheErrors : getEncodedBlocks_cacheError(r, err)
    \/ \E r \in Requests, data \in ConcReplies : getEncodedBlocks_apiData(r, data)
    \/ \E r \in Requests, msg \in HttpErrors : getEncodedBlocks_apiError(r, msg)
    \/ \E r \in Requests : getEncodedBlocks_afterApi(r)

SpecConc == InitConc /\ [][NextConc]_vars

\* One getEncodedBlocks request with any query, the utilities called on
\* cached rows and on API records possibly throwing
InitLive ==
    /\ table \in ConcTables
    /\ InitRequests({1})
    /\ \A r \in Requests : handler[r] = "getEncodedBlocks"
    /\ CodecOff

NextLive ==
    \/ NextConc
    \/ \E r \in Requests, msg \in HitErrors : getEncodedBlocks_cacheRowsThrow(r, msg)
    \/ \E r \in Requests, data \in ConcReplies, msg \in HitErrors :
          getEncodedBlocks_apiDataThrow(r, data, msg)
    \/ \E r \in Requests, msg \in HitErrors : getEncodedBlocks_afterApiThrow(r, msg)

\* The handler is entered, db.all calls its callback, the axios promise
\* settles and the handler resumes: a request with a step to take takes one
Fairness == WF_vars(NextLive)

SpecLive == InitLive /\ [][NextLive]_vars /\ Fairness

----------------------------------------------------------------------------
(* The codec on its own: encode, then decode, of every ordered sequence *)

CodecSamples == [epoch : 0..MaxCodecVal, volume : 0..MaxCodecVal]

IsAscending(samples) ==
    \A i \in 1..(Len(samples) - 1) : samples[i].epoch <= samples[i + 1].epoch

CodecInputs == {s \in SeqsUpTo(CodecSamples, MaxCodecLen) : IsAscending(s)}

InitCodec ==
    /\ table = <<>>
    /\ InitRequests({})
    /\ codecPc = "input"
    /\ codecIn \in CodecInputs
    /\ codecEnc = applyDeltaEncoding(<<>>)
    /\ codecDec = decodeDeltaEncoding(codecEnc)

CodecEncode ==
    /\ codecPc = "input"
    /\ codecEnc' = applyDeltaEncoding(codecIn)
    /\ codecPc' = "encoded"
    /\ UNCHANGED <<table, reqVars, codecIn, codecDec>>

CodecDecode ==
    /\ codecPc = "encoded"
    /\ codecDec' = decodeDeltaEncoding(codecEnc)
    /\ codecPc' = "decoded"
    /\ UNCHANGED <<table, reqVars, codecIn, codecEnc>>

NextCodec == CodecEncode \/ CodecDecode

SpecCodec == InitCodec /\ [][NextCodec]_vars

----------------------------------------------------------------------------
(* Properties *)

EncodedRequests == {r \in Requests : handler[r] = "getEncodedBlocks"}
BlocksRequests == {r \in Requests : handler[r] = "getBlocks"}

\* the cache read of r succeeded with at least one row / with no row / failed
CacheHit(r) == cacheOutcome[r].kind = "rows" /\ Len(cacheOutcome[r].rows) >= 1
CacheMiss(r) == cacheOutcome[r].kind = "rows" /\ Len(cacheOutcome[r].rows) = 0
CacheFailed(r) == cacheOutcome[r].kind = "error"

\* getDataFromApi returned samples / threw
ApiSucceeded(r) ==
    /\ apiOutcome[r].kind = "data"
    /\ IsArray(apiOutcome[r].data)
    /\ apiOutcome[r].message = ""
ApiFailed(r) ==
    \/ apiOutcome[r].kind = "error"
    \/ apiOutcome[r].kind = "data" /\ ~IsArray(apiOutcome[r].data)
    \/ apiOutcome[r].kind = "data" /\ apiOutcome[r].message /= ""
ApiFailureMessage(r) ==
    IF apiOutcome[r].kind = "data" /\ ~IsArray(apiOutcome[r].data)
    THEN MapTypeError(apiOutcome[r].data)
    ELSE apiOutcome[r].message

\* the sample of one cache row and of one API record, as the design states them
SampleOfRow(row) ==
    [epoch  |-> parseTimeToUnixEpoch(row.created_at),
     volume |-> IF "volume" \in DOMAIN row THEN row.volume ELSE 0]
SampleOfRecord(rec) ==
    [epoch  |-> parseTimeToUnixEpoch(rec.createdAt),
     volume |-> IF "transactions" \in DOMAIN rec
                THEN Len(rec.transactions) ELSE 0]
SamplesOfRows(rows) == [k \in 1..Len(rows) |-> SampleOfRow(rows[k])]
SamplesOfRecords(items) == [k \in 1..Len(items) |-> SampleOfRecord(items[k])]

\* body is { isCached: true } merged with the encoded series enc
IsCachedMerge(body, enc) ==
    /\ DOMAIN body = DOMAIN enc \cup {"isCached"}
    /\ body.isCached = TRUE
    /\ \A f \in DOMAIN enc : body[f] = enc[f]

\* the range the request asks for, when both bounds parse
BothValid(r) == ~isNaN(StartOf(r)) /\ ~isNaN(EndOf(r))

\* C1: a getEncodedBlocks request whose cache read succeeded with at least
\* one row has ended with exactly one response, a 200 whose body is
\* { isCached: true } merged with encode of the samples of those rows, and
\* no request went to the API.
C1_CacheHitAnswered ==
    \A r \in EncodedRequests :
        CacheHit(r) =>
            /\ pc[r] = "done"
            /\ Len(sent[r]) = 1
            /\ sent[r][1].status = 200
            /\ IsCachedMerge(sent[r][1].body,
                  applyDeltaEncoding(SamplesOfRows(cacheOutcome[r].rows)))
            /\ httpLog[r] = <<>>
            /\ ~httpPending[r]

C1_Witness ==
    \E r \in EncodedRequests :
        /\ CacheHit(r)
        /\ Len(cacheOutcome[r].rows) >= 2
        /\ pc[r] = "done"
        /\ sent[r] /= <<>>

\* C2: after a cache read with zero rows the API is asked once, for the
\* range the cache query had (the default range when the cache query was
\* the default query), and when getDataFromApi succeeds the one response,
\* sent when the handler resumes, is a 200 without isCached whose body is
\* encode of the samples of the API reply.
C2_MissFallsBackToApi ==
    \A r \in EncodedRequests :
        CacheMiss(r) =>
            /\ Len(dbLog[r]) = 1
            /\ Len(httpLog[r]) = 1
            /\ IF dbLog[r][1].where
               THEN /\ BothValid(r)
                    /\ dbLog[r][1].params = <<StartOf(r), EndOf(r)>>
                    /\ httpLog[r][1] = BlocksUrl(StartOf(r), EndOf(r))
               ELSE /\ ~BothValid(r)
                    /\ httpLog[r][1] = BlocksUrl(Num(ApiDefaultStart), Num(ApiDefaultEnd))
            /\ (ApiSucceeded(r) /\ pc[r] /= "done") => sent[r] = <<>>
            /\ (ApiSucceeded(r) /\ pc[r] = "done") =>
                 /\ Len(sent[r]) = 1
                 /\ sent[r][1].status = 200
                 /\ "isCached" \notin DOMAIN sent[r][1].body
                 /\ sent[r][1].body =
                      applyDeltaEncoding(SamplesOfRecords(apiOutcome[r].data.items))

C2_Witness ==
    \E r \in EncodedRequests :
        /\ CacheMiss(r)
        /\ dbLog[r][1].where
        /\ ApiSucceeded(r)
        /\ Len(apiOutcome[r].data.items) >= 2
        /\ pc[r] = "done"

\* What the caller and the API see of a request that fell back: the URLs
\* requested and, once the handler has resumed after the API call, the
\* responses sent, as a function of the query and of the API's outcome alone
FallbackOutcome(r) ==
    [urls |-> <<IF BothValid(r) THEN BlocksUrl(StartOf(r), EndOf(r))
                ELSE BlocksUrl(Num(ApiDefaultStart), Num(ApiDefaultEnd))>>,
     responses |->
        IF pc[r] /= "done" THEN <<>>
        ELSE IF ApiSucceeded(r)
        THEN <<[status |-> 200,
                body |-> applyDeltaEncoding(
                            SamplesOfRecords(apiOutcome[r].data.items))]>>
        ELSE <<[status |-> 500,
                body |-> [error |-> "Failed to fetch block data",
                          details |-> ApiFailureMessage(r)]]>>]

\* C3: a request whose cache read failed has the outcome (URLs requested,
\* status and body of the response) that a request with the same query and
\* the same API outcome has after an empty cache result: in both cases it is
\* FallbackOutcome; and no response carries the cache error.
C3_CacheErrorLikeMiss ==
    \A r \in EncodedRequests :
        /\ (CacheFailed(r) \/ CacheMiss(r)) =>
              [urls |-> httpLog[r], responses |-> sent[r]] = FallbackOutcome(r)
        /\ \A i \in 1..Len(sent[r]) :
              "details" \in DOMAIN sent[r][i].body
                 => sent[r][i].body.details \notin CacheErrors

C3_Witness ==
    \E r \in EncodedRequests :
        /\ CacheFailed(r)
        /\ pc[r] = "done"
        /\ ApiSucceeded(r)
        /\ sent[r][1].status = 200

\* C4: when the cache path did not end in a hit and getDataFromApi failed,
\* the finished request has exactly one response, a 500 { error, details } whose
\* details is the API failure's message; and a 500 is only ever sent after
\* the fallback step failed.
C4_DoubleFailure ==
    \A r \in EncodedRequests :
        /\ (~CacheHit(r) /\ ApiFailed(r)) =>
              sent[r] = (IF pc[r] = "done"
                         THEN <<[status |-> 500,
                                 body |-> [error |-> "Failed to fetch block data",
                                           details |-> ApiFailureMessage(r)]]>>
                         ELSE <<>>)
        /\ \A i \in 1..Len(sent[r]) :
              sent[r][i].status = 500 =>
                 /\ ApiFailed(r)
                 /\ httpLog[r] /= <<>>
                 /\ ~CacheHit(r)

C4_Witness ==
    \E r \in EncodedRequests :
        /\ CacheFailed(r)
        /\ apiOutcome[r].kind = "error"
        /\ pc[r] = "done"
        /\ Len(sent[r]) = 1

\* C5: a 200 response of getEncodedBlocks has the field isCached, with value
\* true, exactly when the cache read was a hit and the API was not asked; a
\* response sent after the API was asked has no isCached field.
C5_IsCachedOnlyOnHit ==
    \A r \in EncodedRequests :
        \A i \in 1..Len(sent[r]) :
            sent[r][i].status = 200 =>
                LET body == sent[r][i].body IN
                /\ ("isCached" \in DOMAIN body) <=> (CacheHit(r) /\ httpLog[r] = <<>>)
                /\ "isCached" \in DOMAIN body => body.isCached = TRUE
                /\ httpLog[r] /= <<>> => "isCached" \notin DOMAIN body

C5_Witness ==
    \E r \in EncodedRequests :
        /\ CacheMiss(r)
        /\ pc[r] = "done"
        /\ sent[r][1].status = 200
        /\ "isCached" \notin DOMAIN sent[r][1].body

\* the block ids of a sequence of rows
IdsOf(rows) == {rows[k].block_id : k \in 1..Len(rows)}

Min(a, b) == IF a < b THEN a ELSE b

\* C6: when start or end does not parse (one of them or both), every cache
\* query of the request has no WHERE clause and LIMIT 100, its result is the
\* at most 100 rows of the table with the smallest block_id in ascending
\* order, and every API request is for the range 1..100; and no cache query
\* of any request is without both a WHERE range and a LIMIT.
C6_BoundedDefault ==
    \A r \in EncodedRequests :
        /\ ~BothValid(r) =>
              /\ \A i \in 1..Len(dbLog[r]) :
                    /\ ~dbLog[r][i].where
                    /\ dbLog[r][i].params = <<>>
                    /\ dbLog[r][i].limit = <<100>>
              /\ \A i \in 1..Len(httpLog[r]) : httpLog[r][i] = BlocksUrl(Num(1), Num(100))
              /\ cacheOutcome[r].kind = "rows" =>
                    LET rows == cacheOutcome[r].rows IN
                    /\ Len(rows) = Min(Cardinality(DOMAIN table), 100)
                    /\ \A k \in 1..(Len(rows) - 1) :
                          rows[k].block_id < rows[k + 1].block_id
                    /\ \A k \in 1..Len(rows) :
                          /\ rows[k].block_id \in DOMAIN table
                          /\ rows[k] = Row(table, rows[k].block_id)
                    /\ \A j \in DOMAIN table \ IdsOf(rows) :
                          \A i \in IdsOf(rows) : i < j
        /\ \A i \in 1..Len(dbLog[r]) :
              dbLog[r][i].where \/ dbLog[r][i].limit /= <<>>

C6_Witness ==
    \E r \in EncodedRequests :
        /\ ~isNaN(StartOf(r))
        /\ isNaN(EndOf(r))
        /\ Cardinality(DOMAIN table) > 100
        /\ cacheOutcome[r].kind = "rows"
        /\ Len(cacheOutcome[r].rows) = 100

\* req.query with the parameters that do not parse removed
ParsingKeys(q) == {k \in DOMAIN q : ~isNaN(parseInt(q[k]))}
Stripped(q) == [k \in ParsingKeys(q) |-> q[k]]

\* C7: getEncodedBlocks never answers 400, whatever start and end are, and
\* goes on to the cache query it would issue with the parameters that do not
\* parse left out; getBlocks answers 400, with no upstream request, exactly
\* when parseInt of start or of end is NaN.
C7_NoBadRequestOnEncoded ==
    /\ \A r \in EncodedRequests :
          /\ \A i \in 1..Len(sent[r]) : sent[r][i].status /= 400
          /\ pc[r] /= "ready" =>
                /\ Len(dbLog[r]) = 1
                /\ dbLog[r][1] =
                     getDataFromCacheQuery(parseQueryParam(Stripped(query[r]), "start"),
                                           parseQueryParam(Stripped(query[r]), "end"))
    /\ \A r \in BlocksRequests :
          pc[r] /= "ready" =>
             IF DOMAIN Stripped(query[r]) /= {"start", "end"}
             THEN /\ pc[r] = "done"
                  /\ Len(sent[r]) = 1
                  /\ sent[r][1].status = 400
                  /\ httpLog[r] = <<>>
                  /\ ~httpPending[r]
             ELSE /\ Len(httpLog[r]) = 1
                  /\ \A i \in 1..Len(sent[r]) : sent[r][i].status /= 400

C7_Witness ==
    \E r \in BlocksRequests :
        /\ "start" \in DOMAIN query[r]
        /\ ~isNaN(StartOf(r))
        /\ "end" \in DOMAIN query[r]
        /\ isNaN(EndOf(r))
        /\ pc[r] = "done"
        /\ sent[r][1].status = 400

\* C8: for every sequence of samples in ascending epoch, the empty and the
\* one-element sequence included, encode gives the first sample as the base
\* and the signed differences of consecutive samples as the deltas, and
\* decode of that series is the sequence again.
C8_RoundTrip ==
    /\ codecPc \in {"encoded", "decoded"} =>
          /\ codecEnc.length = Len(codecIn)
          /\ codecEnc.base = (IF codecIn = <<>> THEN <<>> ELSE <<codecIn[1]>>)
          /\ Len(codecEnc.deltas) = (IF codecIn = <<>> THEN 0 ELSE Len(codecIn) - 1)
          /\ \A i \in 2..Len(codecIn) :
                /\ codecEnc.deltas[i - 1].epoch = codecIn[i].epoch - codecIn[i - 1].epoch
                /\ codecEnc.deltas[i - 1].volume = codecIn[i].volume - codecIn[i - 1].volume
    /\ codecPc = "decoded" =>
          /\ codecDec.ok
          /\ codecDec.samples = codecIn

C8_Witness ==
    /\ codecPc = "decoded"
    /\ Len(codecIn) >= 3
    /\ codecIn[2].volume < codecIn[1].volume
    /\ codecIn[1].epoch < codecIn[3].epoch
    /\ codecDec.samples = codecIn

\* the samples a client decodes from a response body
Decoded(body) == decodeDeltaEncoding(body).samples

\* C9 as stated: in every 200 response of getEncodedBlocks the decoded samples
\* are non-decreasing in epoch.
C9_AlwaysAscendingEpoch ==
    \A r \in EncodedRequests :
        \A i \in 1..Len(sent[r]) :
            sent[r][i].status = 200 => IsAscending(Decoded(sent[r][i].body))

\* C9 as amended: in every 200 response of getEncodedBlocks the samples are
\* in the order of their source, ascending block_id of the rows on the hit
\* path and the order of the API reply on the fallback path, with the epoch
\* of the source's timestamp each; so they are non-decreasing in epoch
\* exactly when the source's timestamps are, in that order.
C9_OrderFollowsSource ==
    \A r \in EncodedRequests :
        \A i \in 1..Len(sent[r]) :
            sent[r][i].status = 200 =>
                LET dec == Decoded(sent[r][i].body)
                    rows == cacheOutcome[r].rows
                    items == apiOutcome[r].data.items
                IN  IF CacheHit(r)
                    THEN /\ Len(dec) = Len(rows)
                         /\ \A k \in 1..(Len(rows) - 1) :
                               rows[k].block_id < rows[k + 1].block_id
                         /\ \A k \in 1..Len(rows) :
                               dec[k].epoch = parseTimeToUnixEpoch(rows[k].created_at)
                         /\ IsAscending(dec) <=>
                               \A k \in 1..(Len(rows) - 1) :
                                  parseTimeToUnixEpoch(table[rows[k].block_id].created_at)
                                    <= parseTimeToUnixEpoch(table[rows[k + 1].block_id].created_at)
                    ELSE /\ Len(dec) = Len(items)
                         /\ \A k \in 1..Len(items) :
                               dec[k].epoch = parseTimeToUnixEpoch(items[k].createdAt)
                         /\ IsAscending(dec) <=>
                               \A k \in 1..(Len(items) - 1) :
                                  parseTimeToUnixEpoch(items[k].createdAt)
                                    <= parseTimeToUnixEpoch(items[k + 1].createdAt)

C9_Witness ==
    \E r \in EncodedRequests :
        /\ CacheHit(r)
        /\ Len(cacheOutcome[r].rows) = 2
        /\ pc[r] = "done"
        /\ sent[r][1].status = 200
        /\ ~IsAscending(Decoded(sent[r][1].body))

\* C10: within one getEncodedBlocks request at most one cache query and at
\* most one API request are issued, the two are never outstanding together,
\* and the API request is issued only once the cache query has completed
\* with zero rows or with an error.
C10_SequentialFallback ==
    \A r \in EncodedRequests :
        /\ Len(dbLog[r]) <= 1
        /\ Len(httpLog[r]) <= 1
        /\ ~(dbPending[r] /\ httpPending[r])
        /\ dbPending[r] <=> pc[r] = "awaitCache"
        /\ httpPending[r] <=> pc[r] = "awaitApi"
        /\ httpLog[r] /= <<>> =>
              /\ ~dbPending[r]
              /\ Len(dbLog[r]) = 1
              /\ CacheMiss(r) \/ CacheFailed(r)

C10_Witness ==
    \E r \in EncodedRequests :
        /\ pc[r] = "awaitApi"
        /\ httpPending[r]
        /\ CacheFailed(r)
        /\ Len(dbLog[r]) = 1
        /\ Len(httpLog[r]) = 1

\* what request r holds: its part of every per-request variable
OwnState(r) ==
    <<handler[r], query[r], pc[r], dbLog[r], dbPending[r], cacheOutcome[r],
      httpLog[r], httpPending[r], apiOutcome[r], sent[r], hitError[r]>>

\* a step is taken by one request and leaves the others, and the table, as
\* they are
StepOfOneRequest ==
    /\ table' = table
    /\ DOMAIN pc' = DOMAIN pc
    /\ \E r \in Requests :
          \A o \in Requests \ {r} : OwnState(o)' = OwnState(o)

\* the queries, the rows and the responses of r are those of its own start
\* and end, of the table and of the API outcome delivered to r
OwnResultsOnly(r) ==
    /\ dbLog[r] = (IF pc[r] = "ready" THEN <<>>
                   ELSE <<getDataFromCacheQuery(StartOf(r), EndOf(r))>>)
    /\ cacheOutcome[r].kind = "rows" =>
          cacheOutcome[r].rows =
             dbAll(getDataFromCacheQuery(StartOf(r), EndOf(r)), table)
    /\ httpLog[r] \in {<<>>, <<getDataFromApiUrl(StartOf(r), EndOf(r))>>}
    /\ sent[r] =
          (IF CacheHit(r)
           THEN <<[status |-> 200,
                   body |-> applyDeltaEncoding(SamplesOfRows(cacheOutcome[r].rows))
                              @@ [isCached |-> TRUE]]>>
           ELSE FallbackOutcome(r).responses)

\* C11: with several getEncodedBlocks requests in flight, in every
\* interleaving of their turns (the cache completions, the API completions
\* and the resumptions of the handlers after them), what each request asks
\* and answers is determined by its own start and end and by the cache and
\* API results delivered to it, and every step of one request leaves the
\* state of the other requests and the table unchanged.
C11_RequestIsolation ==
    /\ [](\A r \in Requests : OwnResultsOnly(r))
    /\ [][StepOfOneRequest]_vars

C11_Witness ==
    \E r1 \in Requests, r2 \in Requests :
        /\ r1 /= r2
        /\ query[r1] /= query[r2]
        /\ pc[r1] = "done"
        /\ ApiSucceeded(r1)
        /\ apiOutcome[r1].data.items /= <<>>
        /\ Len(sent[r1]) = 1
        /\ sent[r1][1].status = 200
        /\ pc[r2] = "apiSettled"
        /\ ApiFailed(r2)
        /\ sent[r2] = <<>>

\* C12: on the cache-hit path the encoded series holds one sample per row
\* the cache reader returned, in the order of the rows: as many samples as
\* rows, the k-th sample being that of the k-th row.
C12_OneSamplePerRow ==
    \A r \in EncodedRequests :
        (CacheHit(r) /\ hitError[r] = "") =>
            /\ Len(sent[r]) = 1
            /\ LET body == sent[r][1].body
                   rows == cacheOutcome[r].rows
                   dec == Decoded(body)
               IN  /\ body.length = Len(rows)
                   /\ Len(dec) = Len(rows)
                   /\ \A k \in 1..Len(rows) : dec[k] = SampleOfRow(rows[k])

C12_Witness ==
    \E r \in EncodedRequests :
        /\ CacheHit(r)
        /\ Len(cacheOutcome[r].rows) = 2
        /\ \E k \in 1..2 : "volume" \notin DOMAIN cacheOutcome[r].rows[k]
        /\ Len(sent[r]) = 1
        /\ sent[r][1].body.length = 2

\* the block ids of the table within start..end
InRange(r) ==
    {i \in DOMAIN table : NumLeq(StartOf(r), Num(i)) /\ NumLeq(Num(i), EndOf(r))}

\* C13: when start and end both parse, the rows getDataFromCache returns are
\* exactly the rows of the table with start <= block_id <= end, in ascending
\* block_id, however many they are; with start > end there is no row, and
\* the request goes on to the API as after any miss.
C13_RangeRowsExact ==
    \A r \in EncodedRequests :
        (BothValid(r) /\ cacheOutcome[r].kind = "rows") =>
            LET rows == cacheOutcome[r].rows IN
            /\ IdsOf(rows) = InRange(r)
            /\ Len(rows) = Cardinality(InRange(r))
            /\ \A k \in 1..(Len(rows) - 1) :
                  rows[k].block_id < rows[k + 1].block_id
            /\ \A k \in 1..Len(rows) : rows[k] = Row(table, rows[k].block_id)
            /\ ~NumLeq(StartOf(r), EndOf(r)) =>
                  /\ rows = <<>>
                  /\ Len(httpLog[r]) = 1
                  /\ \A i \in 1..Len(sent[r]) :
                        "isCached" \notin DOMAIN sent[r][i].body

C13_Witness ==
    \E r \in EncodedRequests :
        /\ BothValid(r)
        /\ cacheOutcome[r].kind = "rows"
        /\ Len(cacheOutcome[r].rows) > 100
        /\ pc[r] = "done"

\* C14: in a 200 response of the cache path each sample's volume is the
\* volume of its row, 0 for a row whose volume is NULL; in a 200 response of
\* the API path each sample's volume is the number of transactions of its
\* record, 0 for a record without transactions, and so a natural number.
C14_VolumeDerivation ==
    \A r \in EncodedRequests :
        \A i \in 1..Len(sent[r]) :
            sent[r][i].status = 200 =>
                LET dec == Decoded(sent[r][i].body)
                    rows == cacheOutcome[r].rows
                    items == apiOutcome[r].data.items
                IN  IF "isCached" \in DOMAIN sent[r][i].body
                    THEN /\ Len(dec) = Len(rows)
                         /\ \A k \in 1..Len(rows) :
                               dec[k].volume =
                                  (IF "volume" \in DOMAIN rows[k]
                                   THEN rows[k].volume ELSE 0)
                    ELSE /\ Len(dec) = Len(items)
                         /\ \A k \in 1..Len(items) :
                               /\ dec[k].volume =
                                     (IF "transactions" \in DOMAIN items[k]
                                      THEN Len(items[k].transactions) ELSE 0)
                               /\ dec[k].volume \in Nat

C14_Witness ==
    \E r \in EncodedRequests :
        /\ CacheHit(r)
        /\ Len(sent[r]) = 1
        /\ \E k \in 1..Len(cacheOutcome[r].rows) :
              /\ "volume" \notin DOMAIN cacheOutcome[r].rows[k]
              /\ Decoded(sent[r][1].body)[k].volume = 0
        /\ \E k \in 1..Len(cacheOutcome[r].rows) :
              /\ "volume" \in DOMAIN cacheOutcome[r].rows[k]
              /\ Decoded(sent[r][1].body)[k].volume = 2

\* C15: on the fallback path an API reply that is the empty array is answered
\* with one 200 whose body is the encoded empty series, without isCached, and
\* not with an error.
C15_EmptyReplyIsSuccess ==
    \A r \in EncodedRequests :
        (/\ httpLog[r] /= <<>>
         /\ ApiSucceeded(r)
         /\ apiOutcome[r].data.items = <<>>
         /\ pc[r] = "done") =>
            /\ Len(sent[r]) = 1
            /\ sent[r][1].status = 200
            /\ DOMAIN sent[r][1].body = {"length", "base", "deltas"}
            /\ sent[r][1].body.length = 0
            /\ sent[r][1].body.base = <<>>
            /\ sent[r][1].body.deltas = <<>>
            /\ decodeDeltaEncoding(sent[r][1].body).ok
            /\ Decoded(sent[r][1].body) = <<>>

C15_Witness ==
    \E r \in EncodedRequests :
        /\ CacheFailed(r)
        /\ ApiSucceeded(r)
        /\ apiOutcome[r].data.items = <<>>
        /\ pc[r] = "done"
        /\ sent[r][1].status = 200

\* C16: a failure while the cached rows are turned into the response (after
\* rows were read) is absorbed as a storage error is: the request asks the
\* API for the same URL and is answered as FallbackOutcome says, with a 500
\* only when the fallback failed too (the API call, or the transformation of
\* its records), and then with the fallback's failure as details; no response
\* carries the isCached marker.
C16_HitFailureAbsorbed ==
    \A r \in EncodedRequests :
        hitError[r] /= "" =>
            /\ CacheHit(r)
            /\ [urls |-> httpLog[r], responses |-> sent[r]] = FallbackOutcome(r)
            /\ \A i \in 1..Len(sent[r]) :
                  /\ "isCached" \notin DOMAIN sent[r][i].body
                  /\ sent[r][i].status = 500 =>
                        /\ ApiFailed(r)
                        /\ sent[r][i].body.details = ApiFailureMessage(r)

C16_Witness ==
    \E r \in EncodedRequests :
        /\ hitError[r] /= ""
        /\ Len(cacheOutcome[r].rows) >= 1
        /\ pc[r] = "done"
        /\ ApiSucceeded(r)
        /\ sent[r][1].status = 200

\* C17: a getEncodedBlocks request is answered at most once, and exactly once
\* when its handler has finished, on every path; a request answered from the
\* cache never calls the API.
C17_ExactlyOneResponse ==
    \A r \in EncodedRequests :
        /\ Len(sent[r]) <= 1
        /\ pc[r] = "done" <=> Len(sent[r]) = 1
        /\ (CacheHit(r) /\ hitError[r] = "") => httpLog[r] = <<>>
        /\ httpLog[r] /= <<>> =>
              \A i \in 1..Len(sent[r]) : "isCached" \notin DOMAIN sent[r][i].body

C17_Witness ==
    \E r \in EncodedRequests :
        /\ hitError[r] /= ""
        /\ ApiFailed(r)
        /\ pc[r] = "done"
        /\ Len(sent[r]) = 1
        /\ sent[r][1].status = 500

\* The phases of getEncodedBlocks in their order
PhaseOrder ==
    {<<"ready", "awaitCache">>, <<"awaitCache", "awaitApi">>,
     <<"awaitCache", "done">>, <<"awaitApi", "apiSettled">>,
     <<"apiSettled", "done">>}

\* A step of a getEncodedBlocks request moves it forward only: the cache is
\* queried when the handler is entered and never again, the API is requested
\* when the cache phase ends and never again
ForwardOnly ==
    \A r \in EncodedRequests :
        /\ pc'[r] /= pc[r] => <<pc[r], pc'[r]>> \in PhaseOrder
        /\ dbLog'[r] /= dbLog[r] =>
              /\ pc[r] = "ready"
              /\ Len(dbLog'[r]) = 1
        /\ httpLog'[r] /= httpLog[r] =>
              /\ pc[r] = "awaitCache"
              /\ Len(httpLog'[r]) = 1

\* C18: when the cache read and the API call complete, every request
\* eventually reaches its terminal state; a getEncodedBlocks request goes
\* through the cache phase and then at most the fallback phase, never back
\* to the cache and never to a second API request.
C18_Terminates ==
    /\ <>(\A r \in Requests : pc[r] = "done")
    /\ [][ForwardOnly]_vars

C18_Witness ==
    \E r \in EncodedRequests :
        /\ pc[r] = "done"
        /\ CacheMiss(r)
        /\ apiOutcome[r].kind = "data"
        /\ ~IsArray(apiOutcome[r].data)
        /\ Len(dbLog[r]) = 1
        /\ Len(httpLog[r]) = 1
        /\ sent[r][1].status = 500

====
